---- MODULE Spec2Model ----
(***************************************************************************)
(* A model of automata-minimize: finite_automata.py (the automaton, its    *)
(* parser, its checks, get_nonterminating_states, minimize, __str__) and   *)
(* the part of mka.py that drives them.                                    *)
(*                                                                         *)
(* Strings of the program are sequences of one-character strings, so that  *)
(* concatenation, slicing and Python's ordering of strings can be computed.*)
(* Python sets that several objects may share live in `heap`, and an       *)
(* object's field holds a reference into it.                               *)
(***************************************************************************)
EXTENDS Integers, Sequences, FiniteSets, TLC

(* ------------------------------ bounds -------------------------------- *)
MaxStates == 4
MaxRules == 6
MaxCalls == 2
MaxWordLen == 3
MaxNTRules == 3
MaxSectionItems == 2
MaxFinalItems == 1
MaxMainStates == 2

(* ------------------------------ strings ------------------------------- *)
\* The characters of the model in the order of their code points, which is the
\* order Python compares strings by.
CharOrder == <<"'", "0", "A", "_", "a", "b", "c", "x", "y">>

Ord(c) == CHOOSE i \in 1..Len(CharOrder) : CharOrder[i] = c

RECURSIVE StrLess(_, _)
StrLess(s, t) ==
    IF t = <<>> THEN FALSE
    ELSE IF s = <<>> THEN TRUE
    ELSE IF s[1] # t[1] THEN Ord(s[1]) < Ord(t[1])
    ELSE StrLess(Tail(s), Tail(t))

MinStr(S) == CHOOSE s \in S : \A t \in S \ {s} : StrLess(s, t)

\* list(S) followed by list.sort(), for a set of strings.
RECURSIVE SortedList(_)
SortedList(S) ==
    IF S = {} THEN <<>>
    ELSE LET m == MinStr(S) IN <<m>> \o SortedList(S \ {m})

Letters == {"A", "a", "b", "c", "x", "y"}
Digits == {"0"}

\* re.match of _fsm_state_pattern against the whole token.
IsStateId(tok) ==
    /\ Len(tok) >= 1
    /\ tok[1] \in Letters
    /\ \A i \in 1..Len(tok) : tok[i] \in Letters \cup Digits \cup {"_"}
    /\ tok[Len(tok)] \in Letters \cup Digits

(* ------------------------------ rules --------------------------------- *)
Rule(state, input_symbol, next_state) ==
    [state |-> state, input_symbol |-> input_symbol, next_state |-> next_state]

Epsilon == <<>>

(* ------------------------ the state of the program -------------------- *)
VARIABLES
    pc,            \* where the driver is
    caller,        \* "api": the library is called directly; "main": mka.py runs
    opts,          \* mka.py's options
    heap,          \* the set objects, by reference
    fa,            \* the FiniteAutomata: references and start_state
    ws,            \* the WellSpecifiedFA: references and start_state
    exc,           \* the exception raised, "" when none
    Qm,            \* minimize: the partition
    sym_order,     \* minimize: the order in which self.alphabet iterates
    calls,         \* number of minimize() calls begun
    orig,          \* history: the automaton as constructed
    prev,          \* history: the WellSpecifiedFA before the latest minimize()
    term,          \* get_nonterminating_states: term
    copy_rules,    \* get_nonterminating_states: copy_rules
    scans,         \* get_nonterminating_states: iterations of the loop begun
    nt_result,     \* get_nonterminating_states: the value returned
    text,          \* the input text, <<>> when there is none
    out,           \* what was written or returned as text, <<>> when nothing
    fa2            \* the FiniteAutomata built from str(fa)

vars == <<pc, caller, opts, heap, fa, ws, exc, Qm, sym_order, calls, orig, prev,
          term, copy_rules, scans, nt_result, text, out, fa2>>

minimizeVars == <<Qm, sym_order, calls, prev>>
ntVars == <<term, copy_rules, scans, nt_result>>

\* References to the set objects of the first and of the second automaton built.
Refs1 == [states |-> "states1", alphabet |-> "alphabet1", rules |-> "rules1",
          final_states |-> "final_states1"]
Refs2 == [states |-> "states2", alphabet |-> "alphabet2", rules |-> "rules2",
          final_states |-> "final_states2"]
NoRefs == [states |-> "none", alphabet |-> "none", rules |-> "none",
           final_states |-> "none"]
RefNames == {"states1", "alphabet1", "rules1", "final_states1",
             "states2", "alphabet2", "rules2", "final_states2", "none"}

NoObject == [refs |-> NoRefs, start_state |-> <<>>]

\* The content of an automaton object: what its fields hold.
Content(obj) ==
    [states |-> heap[obj.refs.states], alphabet |-> heap[obj.refs.alphabet],
     rules |-> heap[obj.refs.rules], start_state |-> obj.start_state,
     final_states |-> heap[obj.refs.final_states]]

NoContent == [states |-> {}, alphabet |-> {}, rules |-> {}, start_state |-> <<>>,
              final_states |-> {}]

(* --------------------------- the input text -------------------------- *)
\* A text that matches the top-level shape of _fsm_pattern is the items of its
\* four bracketed sections, between their commas, and its start-state token. A
\* rule item is its state, its symbol literal, whether "->" follows, and its
\* next state. `shape` is whether the brackets and commas of _fsm_pattern are
\* there at all.
Apostrophe == "'"

EpsilonLiteral == <<Apostrophe, Apostrophe>>
MarkerLiteral == <<Apostrophe, Apostrophe, Apostrophe>>
ApostropheLiteral == <<Apostrophe, Apostrophe, Apostrophe, Apostrophe>>

\* What _get_input_symbol returns for three apostrophes: Python's None.
None == <<"None">>

\* re.match of _fsm_sym_pattern against the whole literal.
IsSymLiteral(lit) ==
    \/ Len(lit) \in 2..4 /\ \A i \in 1..Len(lit) : lit[i] = Apostrophe
    \/ Len(lit) = 3 /\ lit[1] = Apostrophe /\ lit[2] # Apostrophe /\ lit[3] = Apostrophe

_get_input_symbol(sym_content) ==
    IF sym_content = EpsilonLiteral THEN Epsilon
    ELSE IF sym_content = MarkerLiteral THEN None
    ELSE IF sym_content = ApostropheLiteral THEN <<Apostrophe>>
    ELSE SubSeq(sym_content, 2, Len(sym_content) - 1)

Items(section) == {section[i] : i \in 1..Len(section)}

\* _check_get_states: "syntax" when the section is not a list of state
\* identifiers; an empty section is the empty set.
StatesSectionOk(section) == \A tok \in Items(section) : IsStateId(tok)

\* _check_get_alphabet, line 90: one symbol literal at least.
AlphabetSectionOk(section) ==
    /\ section # <<>>
    /\ \A lit \in Items(section) : IsSymLiteral(lit)

\* re.match of _fsm_rule_pattern against the whole rule item.
IsRuleItem(item) ==
    /\ IsStateId(item.state)
    /\ IsSymLiteral(item.sym)
    /\ item.arrow
    /\ IsStateId(item.next)

\* _check_get_rules, line 110: one rule at least.
RulesSectionOk(section) ==
    /\ section # <<>>
    /\ \A item \in Items(section) : IsRuleItem(item)

\* re.match of _fsm_pattern, line 153: the start state is part of the pattern.
TopLevelMatches(t) == t.shape /\ IsStateId(t.start)

\* The rules of a rules section (lines 113-123), when no literal is the marker.
RulesOf(section) ==
    {Rule(item.state, _get_input_symbol(item.sym), item.next) : item \in Items(section)}

\* The content FiniteAutomata.__init__ gives the object from text t.
ParsedContent(t) ==
    [states |-> Items(t.states),
     alphabet |-> {_get_input_symbol(lit) : lit \in Items(t.alphabet)},
     rules |-> RulesOf(t.rules),
     start_state |-> t.start,
     final_states |-> Items(t.finals)]

\* _check_semantic raises: the start state is unknown, or for some rule one of
\* the four tests of the loop fails.
SemanticFailure(c) ==
    \/ c.start_state \notin c.states
    \/ \E rule \in c.rules :
          \/ rule.input_symbol \notin c.alphabet
          \/ rule.state \notin c.states
          \/ rule.next_state \notin c.states
          \/ ~(c.final_states \subseteq c.states)

\* The exception FiniteAutomata.__init__ raises on text t, "" when it returns.
\* Line 121 formats a string of two fields with one argument, which raises
\* IndexError before FASyntaxException is built.
ConstructionError(t) ==
    IF ~TopLevelMatches(t) THEN "FASyntaxException"
    ELSE IF ~StatesSectionOk(t.states) THEN "FASyntaxException"
    ELSE IF Items(t.states) = {} THEN "FASemanticException"
    ELSE IF ~AlphabetSectionOk(t.alphabet) THEN "FASyntaxException"
    ELSE IF \E lit \in Items(t.alphabet) : _get_input_symbol(lit) = None
         THEN "FASyntaxException"
    ELSE IF ~RulesSectionOk(t.rules) THEN "FASyntaxException"
    ELSE IF \E item \in Items(t.rules) : _get_input_symbol(item.sym) = None
         THEN "IndexError"
    ELSE IF ~StatesSectionOk(t.finals) THEN "FASyntaxException"
    ELSE IF SemanticFailure(ParsedContent(t)) THEN "FASemanticException"
    ELSE ""

(* ------------------------------ __str__ ------------------------------- *)
\* Rule.__str__: the symbol between two apostrophes, as it is.
RuleItem(rule) ==
    [state |-> rule.state,
     sym |-> <<Apostrophe>> \o rule.input_symbol \o <<Apostrophe>>,
     arrow |-> TRUE,
     next |-> rule.next_state]

\* Lines 265-272: an alphabet symbol between two apostrophes, the apostrophe
\* doubled first.
AlphabetItem(input_symbol) ==
    <<Apostrophe>>
    \o (IF input_symbol = <<Apostrophe>> THEN <<Apostrophe, Apostrophe>> ELSE input_symbol)
    \o <<Apostrophe>>

\* The key of line 275 orders rule r before rule t.
RuleKeyLess(r, t) ==
    \/ StrLess(r.state, t.state)
    \/ r.state = t.state /\ StrLess(r.input_symbol, t.input_symbol)

\* The lists rules_list.sort can leave: rules of equal key stay in the order
\* the set iterated in, which is any.
SortedRuleLists(rules) ==
    {f \in [1..Cardinality(rules) -> rules] :
        /\ \A i, j \in 1..Cardinality(rules) : f[i] = f[j] => i = j
        /\ \A i, j \in 1..Cardinality(rules) : i < j => ~RuleKeyLess(f[j], f[i])}

\* FiniteAutomata.__str__ with the rules in the order rules_list.
StrText(c, rules_list) ==
    [shape |-> TRUE,
     states |-> SortedList(c.states),
     alphabet |-> [i \in 1..Cardinality(c.alphabet) |->
                      AlphabetItem(SortedList(c.alphabet)[i])],
     rules |-> [i \in 1..Len(rules_list) |-> RuleItem(rules_list[i])],
     start |-> c.start_state,
     finals |-> SortedList(c.final_states)]

(* --------------------- FiniteAutomata: the checks --------------------- *)
\* FiniteAutomata.deterministic, on the content c of an automaton.
deterministic(c) ==
    /\ \A rule \in c.rules : rule.input_symbol # Epsilon
    /\ Cardinality(c.rules)
         = Cardinality({<<rule.state, rule.input_symbol>> : rule \in c.rules})

\* FiniteAutomata.complete
complete(c) ==
    \A state \in c.states :
        c.alphabet = {rule.input_symbol : rule \in {r \in c.rules : r.state = state}}

\* FiniteAutomata.all_states_are_accessible
all_states_are_accessible(c) ==
    LET next_states == {rule.next_state : rule \in c.rules}
    IN  \A state \in c.states : ~(state # c.start_state /\ state \notin next_states)

\* One iteration of the loop of get_nonterminating_states: the rules of
\* copy_rules that lead from outside t into t.
RulesToDel(t, cr) == {rule \in cr : rule.state \notin t /\ rule.next_state \in t}

NewTerm(t, cr) == {rule.state : rule \in RulesToDel(t, cr)}

\* A bug TermAfterScan could have: term is replaced, not extended.
TermAfterScanReplaced(t, cr) == NewTerm(t, cr)

\* term after line 249.
TermAfterScan(t, cr) == t \cup NewTerm(t, cr)

RECURSIVE TermLoop(_, _)
TermLoop(t, cr) ==
    IF NewTerm(t, cr) = {} THEN t
    ELSE TermLoop(TermAfterScan(t, cr), cr \ RulesToDel(t, cr))

\* FiniteAutomata.get_nonterminating_states, run to its end.
get_nonterminating_states(c) == c.states \ TermLoop(c.final_states, c.rules)

\* The reason WellSpecifiedFA.__init__ raises with, "" when it returns.
NotWellSpecified(c) ==
    IF ~deterministic(c) THEN "not deterministic"
    ELSE IF ~complete(c) THEN "not complete"
    ELSE IF ~all_states_are_accessible(c) THEN "states are not accessible"
    ELSE IF Cardinality(get_nonterminating_states(c)) > 1
         THEN "number of nonterminating states > 1"
    ELSE ""

(* ----------------------------- minimize ------------------------------- *)
_get_rules_with_states_sym(rules, states, symbol) ==
    {rule \in rules : rule.state \in states /\ rule.input_symbol = symbol}

_get_next_states_rule_set(rule_set) == {rule.next_state : rule \in rule_set}

\* Every (sub, some_set - sub) with sub of 1 .. len(some_set) - 1 elements.
_gen_subsets(some_set) ==
    {<<sub, some_set \ sub>> : sub \in (SUBSET some_set) \ {{}, some_set}}

\* A bug DividesBlock could have: the second part is not tested.
DividesBlockFirstPartOnly(Q1, q1_set, q2_set) == q1_set \subseteq Q1

\* The test of line 367 on a pair of _gen_subsets.
DividesBlock(Q1, q1_set, q2_set) == q1_set \subseteq Q1 /\ q2_set \cap Q1 = {}

\* _connect_states: the sorted members joined by "_".
RECURSIVE JoinStates(_)
JoinStates(list_states) ==
    IF list_states = <<>> THEN <<>>
    ELSE IF Len(list_states) = 1 THEN list_states[1]
    ELSE list_states[1] \o <<"_">> \o JoinStates(Tail(list_states))

_connect_states(set_states) == JoinStates(SortedList(set_states))

\* The outcome of part of a pass: the partition, whether a KeyError was raised
\* by updated_Qm.remove, and whether a block was divided.
Outcome(Q, raised, divided) == [Qm |-> Q, raised |-> raised, divided |-> divided]

\* The body of `for Q1 in Qm` (lines 360-381) on updated_Qm. At most one pair of
\* _gen_subsets passes the test: its first part is next_states & Q1.
DivideBlock(updated_Qm, Q1, rules, symbol) ==
    LET rules_Q1_sym == _get_rules_with_states_sym(rules, Q1, symbol)
        next_states == _get_next_states_rule_set(rules_Q1_sym)
        pairs == {p \in _gen_subsets(next_states) : DividesBlock(Q1, p[1], p[2])}
    IN  IF Cardinality(Q1) = 1 \/ pairs = {}
        THEN Outcome(updated_Qm, FALSE, FALSE)
        ELSE LET p == CHOOSE p \in pairs : TRUE
                 X1 == {rule.state : rule \in
                           {r \in rules_Q1_sym : r.next_state \in p[2]}}
                 X2 == {rule.state : rule \in
                           {r \in rules_Q1_sym : r.next_state \in p[1]}}
             IN  IF (X1 \cup X2) \notin updated_Qm
                 THEN Outcome(updated_Qm, TRUE, TRUE)
                 ELSE Outcome((updated_Qm \ {X1 \cup X2}) \cup {X1, X2}, FALSE, TRUE)

\* `for Q1 in Qm` over the blocks in the order blocks[i], blocks[i+1], ...
RECURSIVE ForBlocks(_, _, _, _, _, _)
ForBlocks(updated_Qm, divided, blocks, i, rules, symbol) ==
    IF i > Len(blocks) THEN Outcome(updated_Qm, FALSE, divided)
    ELSE LET o == DivideBlock(updated_Qm, blocks[i], rules, symbol)
         IN  IF o.raised THEN o
             ELSE ForBlocks(o.Qm, divided \/ o.divided, blocks, i + 1, rules, symbol)

\* The orders a set may iterate in.
Orders(S) ==
    {f \in [1..Cardinality(S) -> S] : \A i, j \in 1..Cardinality(S) : f[i] = f[j] => i = j}

PairwiseDisjoint(Q) == \A X, Y \in Q : X # Y => X \cap Y = {}

\* The orders of `for Q1 in Qm` that can differ in their outcome: blocks that are
\* pairwise disjoint are divided independently of one another, in any order.
BlockOrders(Q) ==
    IF PairwiseDisjoint(Q) THEN {CHOOSE f \in Orders(Q) : TRUE} ELSE Orders(Q)

\* The outcomes of lines 358-381 for one symbol.
SymbolOutcomes(Q, rules, symbol) ==
    {ForBlocks(Q, FALSE, blocks, 1, rules, symbol) : blocks \in BlockOrders(Q)}

\* The outcomes of `for symbol in self.alphabet` (lines 357-381) from symbol
\* order[i] on.
RECURSIVE PassOutcomes(_, _, _, _, _)
PassOutcomes(Q, divided, order, i, rules) ==
    IF i > Len(order) THEN {Outcome(Q, FALSE, divided)}
    ELSE UNION {IF o.raised THEN {o}
                ELSE PassOutcomes(o.Qm, divided \/ o.divided, order, i + 1, rules)
                : o \in SymbolOutcomes(Q, rules, order[i])}

\* Rm of lines 384-393.
RebuiltRules(Q, c) ==
    {Rule(_connect_states(X), r.input_symbol, _connect_states(Y)) :
        <<X, Y, r>> \in {t \in Q \X Q \X c.rules :
                            /\ t[3].state \in t[1]
                            /\ t[3].next_state \in t[2]
                            /\ t[3].input_symbol \in c.alphabet}}

\* The start states lines 394-397 can set: the name of a block that holds the
\* start state, or the start state as it was when no block holds it.
RebuiltStarts(Q, c) ==
    IF \E q \in Q : c.start_state \in q
    THEN {_connect_states(q) : q \in {b \in Q : c.start_state \in b}}
    ELSE {c.start_state}

\* Fm of lines 398-401, named as lines 409-411 name it.
RebuiltFinals(Q, c) == {_connect_states(F) : F \in {X \in Q : X \cap c.final_states # {}}}

\* The states of lines 403-405.
RebuiltStates(Q) == {_connect_states(B) : B \in Q}

(* ------------------- the automata the checks start from --------------- *)
StateNames == {<<"a">>, <<"b">>, <<"a", "_", "b">>, <<"c">>}
Symbols == {<<"x">>, <<"y">>}

EmptyHeap == [r \in RefNames |-> {}]

\* The heap after FiniteAutomata.__init__ has built an automaton of content c.
HeapOf(c, refs) ==
    [r \in RefNames |->
        IF r = refs.states THEN c.states
        ELSE IF r = refs.alphabet THEN c.alphabet
        ELSE IF r = refs.rules THEN c.rules
        ELSE IF r = refs.final_states THEN c.final_states
        ELSE {}]

\* The sets of states and the alphabets within the bounds.
StateSets == {T \in (SUBSET StateNames) \ {{}} : Cardinality(T) <= MaxStates}

Alphabets(S) ==
    {B \in (SUBSET Symbols) \ {{}} : Cardinality(S) * Cardinality(B) <= MaxRules}

\* The deterministic complete automaton of transition function d: one rule for
\* each state and symbol.
TotalAutomaton(S, A, d, q0, F) ==
    [states |-> S, alphabet |-> A,
     rules |-> {Rule(sa[1], sa[2], d[sa]) : sa \in S \X A},
     start_state |-> q0, final_states |-> F]

(* --------------------- WellSpecifiedFA and minimize ------------------- *)
\* WellSpecifiedFA.__init__(fa): the new object's fields are fa's own set
\* objects; it raises FAException when fa is not well specified.
WellSpecifiedFA_init ==
    /\ pc = "constructed"
    /\ ws' = [refs |-> fa.refs, start_state |-> fa.start_state]
    /\ IF NotWellSpecified(Content(fa)) # ""
       THEN /\ exc' = "FAException"
            /\ pc' = "raised"
       ELSE /\ exc' = exc
            /\ pc' = "ws"
    /\ UNCHANGED <<caller, opts, heap, fa, orig, text, out, fa2>>
    /\ UNCHANGED minimizeVars
    /\ UNCHANGED ntVars

\* minimize(), lines 352-354: the partition starts as the final states and the
\* others.
minimize_begin ==
    /\ Qm' = {heap[ws.refs.final_states],
              heap[ws.refs.states] \ heap[ws.refs.final_states]}
    /\ prev' = Content(ws)
    /\ calls' = calls + 1
    /\ pc' = "refine"
    /\ UNCHANGED <<caller, opts, heap, fa, ws, exc, sym_order, orig, text, out, fa2>>
    /\ UNCHANGED ntVars

\* A direct call of minimize() on the WellSpecifiedFA, the first or a later one.
minimize_call ==
    /\ caller = "api"
    /\ pc \in {"ws", "minimized"}
    /\ calls < MaxCalls
    /\ minimize_begin

\* minimize(), lines 355-383: one iteration of `while True`.
minimize_pass ==
    /\ pc = "refine"
    /\ \E o \in PassOutcomes(Qm, FALSE, sym_order, 1, heap[ws.refs.rules]) :
          IF o.raised
          THEN /\ exc' = "KeyError"
               /\ pc' = "raised"
               /\ Qm' = Qm
          ELSE /\ exc' = exc
               /\ Qm' = o.Qm
               /\ pc' = IF o.divided THEN "refine" ELSE "rebuild"
    /\ UNCHANGED <<caller, opts, heap, fa, ws, sym_order, calls, orig, prev, text, out, fa2>>
    /\ UNCHANGED ntVars

\* minimize(), lines 384-411: the automaton is rebuilt from the partition, its
\* set objects emptied and filled in place.
minimize_rebuild ==
    /\ pc = "rebuild"
    /\ \E s \in RebuiltStarts(Qm, Content(ws)) :
          ws' = [ws EXCEPT !.start_state = s]
    /\ heap' = [r \in RefNames |->
                  IF r = ws.refs.final_states THEN RebuiltFinals(Qm, Content(ws))
                  ELSE IF r = ws.refs.rules THEN RebuiltRules(Qm, Content(ws))
                  ELSE IF r = ws.refs.states THEN RebuiltStates(Qm)
                  ELSE heap[r]]
    /\ pc' = "minimized"
    /\ UNCHANGED <<caller, opts, fa, exc, Qm, sym_order, calls, orig, prev, text, out, fa2>>
    /\ UNCHANGED ntVars

\* A FiniteAutomata of content c has been constructed.
Constructed(c) ==
    /\ heap = HeapOf(c, Refs1)
    /\ fa = [refs |-> Refs1, start_state |-> c.start_state]
    /\ orig = c
    /\ ws = NoObject
    /\ exc = ""
    /\ Qm = {}
    /\ calls = 0
    /\ prev = NoContent
    /\ term = {}
    /\ copy_rules = {}
    /\ scans = 0
    /\ nt_result = {}
    /\ text = <<>>
    /\ out = <<>>
    /\ fa2 = NoObject

\* The library, called on a constructed deterministic complete automaton:
\* WellSpecifiedFA(fa), then minimize() up to MaxCalls times.
InitMin ==
    /\ pc = "constructed"
    /\ caller = "api"
    /\ opts = {}
    /\ \E S \in StateSets : \E A \in Alphabets(S) :
       \E d \in [S \X A -> S] : \E q0 \in S : \E F \in SUBSET S :
          /\ Constructed(TotalAutomaton(S, A, d, q0, F))
          /\ sym_order \in Orders(A)

NextMin ==
    \/ WellSpecifiedFA_init
    \/ minimize_call
    \/ minimize_pass
    \/ minimize_rebuild

SpecMin == InitMin /\ [][NextMin]_vars

(* ---------------------- get_nonterminating_states --------------------- *)
\* Lines 237-238: term and copy_rules are copies of the automaton's sets.
nt_begin ==
    /\ caller = "api"
    /\ pc = "constructed"
    /\ term' = heap[fa.refs.final_states]
    /\ copy_rules' = heap[fa.refs.rules]
    /\ pc' = "nt_loop"
    /\ UNCHANGED <<caller, opts, heap, fa, ws, exc, orig, text, out, fa2, scans, nt_result>>
    /\ UNCHANGED minimizeVars

\* Lines 240-249: one iteration of `while True`.
nt_scan ==
    /\ pc = "nt_loop"
    /\ scans' = scans + 1
    /\ copy_rules' = copy_rules \ RulesToDel(term, copy_rules)
    /\ IF NewTerm(term, copy_rules) = {}
       THEN /\ pc' = "nt_return"
            /\ term' = term
       ELSE /\ pc' = "nt_loop"
            /\ term' = TermAfterScan(term, copy_rules)
    /\ UNCHANGED <<caller, opts, heap, fa, ws, exc, orig, text, out, fa2, nt_result>>
    /\ UNCHANGED minimizeVars

\* Line 251.
nt_return ==
    /\ pc = "nt_return"
    /\ nt_result' = heap[fa.refs.states] \ term
    /\ pc' = "nt_done"
    /\ UNCHANGED <<caller, opts, heap, fa, ws, exc, orig, text, out, fa2, term, copy_rules, scans>>
    /\ UNCHANGED minimizeVars

\* The sets of at most k elements of X.
SubsetsUpTo(X, k) == {R \in SUBSET X : Cardinality(R) <= k}

\* The library, called on any constructed automaton (its rules need be neither
\* deterministic nor complete, and may use epsilon): get_nonterminating_states().
InitNT ==
    /\ pc = "constructed"
    /\ caller = "api"
    /\ opts = {}
    /\ \E S \in StateSets : \E A \in Alphabets(S) \cup {{Epsilon}} :
       \E R \in SubsetsUpTo({Rule(t[1], t[2], t[3]) : t \in S \X A \X S}, MaxNTRules) \ {{}} :
       \E q0 \in S : \E F \in SUBSET S :
          /\ Constructed([states |-> S, alphabet |-> A, rules |-> R,
                          start_state |-> q0, final_states |-> F])
          /\ sym_order \in Orders(A)

NextNT ==
    \/ nt_begin
    \/ nt_scan
    \/ nt_return

SpecNT == InitNT /\ [][NextNT]_vars

(* ----------------- construction from text, and __str__ ---------------- *)
\* The object and history that FiniteAutomata.__init__ leaves, or the exception.
FiniteAutomata_init ==
    /\ pc = "start"
    /\ IF ConstructionError(text[1]) # ""
       THEN /\ exc' = ConstructionError(text[1])
            /\ pc' = "raised"
            /\ UNCHANGED <<heap, fa, orig, sym_order>>
       ELSE /\ exc' = exc
            /\ pc' = "constructed"
            /\ heap' = HeapOf(ParsedContent(text[1]), Refs1)
            /\ fa' = [refs |-> Refs1, start_state |-> text[1].start]
            /\ orig' = ParsedContent(text[1])
            /\ sym_order' \in Orders(ParsedContent(text[1]).alphabet)
    /\ UNCHANGED <<caller, opts, ws, Qm, calls, prev, text, out, fa2>>
    /\ UNCHANGED ntVars

\* str(fa), called directly.
fa_str ==
    /\ caller = "api"
    /\ pc = "constructed"
    /\ \E rules_list \in SortedRuleLists(heap[fa.refs.rules]) :
          out' = <<StrText(Content(fa), rules_list)>>
    /\ pc' = "str_done"
    /\ UNCHANGED <<caller, opts, heap, fa, ws, exc, orig, text, fa2>>
    /\ UNCHANGED minimizeVars
    /\ UNCHANGED ntVars

\* FiniteAutomata(str(fa)): a second object, with set objects of its own.
FiniteAutomata_init_again ==
    /\ pc = "str_done"
    /\ IF ConstructionError(out[1]) # ""
       THEN /\ exc' = ConstructionError(out[1])
            /\ pc' = "raised_again"
            /\ UNCHANGED <<heap, fa2>>
       ELSE /\ exc' = exc
            /\ pc' = "constructed_again"
            /\ heap' = [r \in RefNames |->
                          IF r = Refs2.states THEN ParsedContent(out[1]).states
                          ELSE IF r = Refs2.alphabet THEN ParsedContent(out[1]).alphabet
                          ELSE IF r = Refs2.rules THEN ParsedContent(out[1]).rules
                          ELSE IF r = Refs2.final_states
                               THEN ParsedContent(out[1]).final_states
                          ELSE heap[r]]
            /\ fa2' = [refs |-> Refs2, start_state |-> out[1].start]
    /\ UNCHANGED <<caller, opts, fa, ws, orig, text, out>>
    /\ UNCHANGED minimizeVars
    /\ UNCHANGED ntVars

\* The texts the checks start from: state tokens, symbol literals and rule
\* items, well formed and not.
StateTokens == {<<"a">>, <<"b">>, <<"a", "_">>}

SymLiterals ==
    {EpsilonLiteral, <<Apostrophe, "x", Apostrophe>>, MarkerLiteral, ApostropheLiteral}

Literals == SymLiterals \cup {<<Apostrophe, "x">>}

RuleItems ==
    {[state |-> <<"a">>, sym |-> lit, arrow |-> TRUE, next |-> n] :
        lit \in SymLiterals, n \in {<<"a">>, <<"b">>}}
    \cup {[state |-> <<"a">>, sym |-> <<Apostrophe, "x", Apostrophe>>,
           arrow |-> FALSE, next |-> <<"a">>]}

SeqsUpTo(S, n) == UNION {[1..k -> S] : k \in 0..n}

\* A text that does not match _fsm_pattern has no sections.
BadShapeText ==
    [shape |-> FALSE, states |-> <<>>, alphabet |-> <<>>, rules |-> <<>>,
     start |-> <<"a">>, finals |-> <<>>]

NoText(pcs) ==
    /\ heap = EmptyHeap
    /\ fa = NoObject
    /\ orig = NoContent
    /\ sym_order = <<>>
    /\ ws = NoObject
    /\ exc = ""
    /\ Qm = {}
    /\ calls = 0
    /\ prev = NoContent
    /\ term = {}
    /\ copy_rules = {}
    /\ scans = 0
    /\ nt_result = {}
    /\ out = <<>>
    /\ fa2 = NoObject
    /\ pc = pcs

\* The library, called on a text: FiniteAutomata(text), str() of the result,
\* and FiniteAutomata() of that.
InitParse ==
    /\ NoText("start")
    /\ caller = "api"
    /\ opts = {}
    /\ \/ text = <<BadShapeText>>
       \/ \E st \in SeqsUpTo(StateTokens, MaxSectionItems) :
          \E al \in SeqsUpTo(Literals, MaxSectionItems) :
          \E ru \in SeqsUpTo(RuleItems, MaxSectionItems) :
          \E q0 \in StateTokens :
          \E fi \in SeqsUpTo(StateTokens, MaxFinalItems) :
             text = <<[shape |-> TRUE, states |-> st, alphabet |-> al, rules |-> ru,
                       start |-> q0, finals |-> fi]>>

NextParse ==
    \/ FiniteAutomata_init
    \/ fa_str
    \/ FiniteAutomata_init_again

SpecParse == InitParse /\ [][NextParse]_vars

(* ------------------------------- mka.py -------------------------------- *)
\* str.lower() on a character of the model, and on every token of a text.
LowerChar(ch) == IF ch = "A" THEN "a" ELSE ch

LowerStr(str) == [i \in 1..Len(str) |-> LowerChar(str[i])]

LowerText(t) ==
    [shape |-> t.shape,
     states |-> [i \in 1..Len(t.states) |-> LowerStr(t.states[i])],
     alphabet |-> [i \in 1..Len(t.alphabet) |-> LowerStr(t.alphabet[i])],
     rules |-> [i \in 1..Len(t.rules) |->
                   [state |-> LowerStr(t.rules[i].state),
                    sym |-> LowerStr(t.rules[i].sym),
                    arrow |-> t.rules[i].arrow,
                    next |-> LowerStr(t.rules[i].next)]],
     start |-> LowerStr(t.start),
     finals |-> [i \in 1..Len(t.finals) |-> LowerStr(t.finals[i])]]

\* The sets of options get_options lets through: not both minimize and
\* find-non-finishing.
OptionSets ==
    {o \in SUBSET {"minimize", "find-non-finishing", "case-insensitive"} :
        ~({"minimize", "find-non-finishing"} \subseteq o)}

\* Lines 121-122: the text is lowered under --case-insensitive.
main_lower ==
    /\ caller = "main"
    /\ pc = "main"
    /\ text' = IF "case-insensitive" \in opts THEN <<LowerText(text[1])>> ELSE text
    /\ pc' = "start"
    /\ UNCHANGED <<caller, opts, heap, fa, ws, exc, orig, out, fa2, sym_order>>
    /\ UNCHANGED <<Qm, calls, prev>>
    /\ UNCHANGED ntVars

\* Lines 126-128, and an exception main does not catch: the program exits
\* having written no automaton.
main_except ==
    /\ caller = "main"
    /\ pc = "raised"
    /\ pc' = "exited"
    /\ UNCHANGED <<caller, opts, heap, fa, ws, exc, orig, text, out, fa2>>
    /\ UNCHANGED minimizeVars
    /\ UNCHANGED ntVars

\* Lines 144-151: under --find-non-finishing, a non-terminating state or "0"
\* is written.
main_find ==
    /\ caller = "main"
    /\ pc = "ws"
    /\ "find-non-finishing" \in opts
    /\ nt_result' = get_nonterminating_states(Content(ws))
    /\ IF nt_result' # {}
       THEN \E q \in nt_result' : out' = <<q>>
       ELSE out' = <<<<"0">>>>
    /\ pc' = "exited"
    /\ UNCHANGED <<caller, opts, heap, fa, ws, exc, orig, text, fa2>>
    /\ UNCHANGED <<term, copy_rules, scans>>
    /\ UNCHANGED minimizeVars

\* Line 153: without --find-non-finishing, minimize() is called, whether or
\* not --minimize was given.
main_minimize ==
    /\ caller = "main"
    /\ pc = "ws"
    /\ "find-non-finishing" \notin opts
    /\ minimize_begin

\* Lines 154-156: the automaton is written.
main_print ==
    /\ caller = "main"
    /\ pc = "minimized"
    /\ \E rules_list \in SortedRuleLists(heap[ws.refs.rules]) :
          out' = <<StrText(Content(ws), rules_list)>>
    /\ pc' = "exited"
    /\ UNCHANGED <<caller, opts, heap, fa, ws, exc, orig, text, fa2>>
    /\ UNCHANGED minimizeVars
    /\ UNCHANGED ntVars

MainStateNames == {<<"a">>, <<"A">>, <<"b">>}

\* mka.py, run on the text of a deterministic complete automaton of at most
\* MaxMainStates states, or on a text of no shape, under each set of options.
InitMain ==
    /\ NoText("main")
    /\ caller = "main"
    /\ opts \in OptionSets
    /\ \/ text = <<BadShapeText>>
       \/ \E S \in {T \in (SUBSET MainStateNames) \ {{}} : Cardinality(T) <= MaxMainStates} :
          \E A \in Alphabets(S) : \E d \in [S \X A -> S] : \E q0 \in S : \E F \in SUBSET S :
          \E rules_list \in SortedRuleLists(TotalAutomaton(S, A, d, q0, F).rules) :
             text = <<StrText(TotalAutomaton(S, A, d, q0, F), rules_list)>>

NextMain ==
    \/ main_lower
    \/ FiniteAutomata_init
    \/ WellSpecifiedFA_init
    \/ main_except
    \/ main_find
    \/ main_minimize
    \/ minimize_pass
    \/ minimize_rebuild
    \/ main_print

SpecMain == InitMain /\ [][NextMain]_vars

(* ------------------------------ languages ----------------------------- *)
\* The words over alphabet A of at most MaxWordLen symbols.
Words(A) == UNION {[1..n -> A] : n \in 0..MaxWordLen}

\* The states the rules lead to from the states cur on the word w.
RECURSIVE Run(_, _, _)
Run(rules, cur, w) ==
    IF w = <<>> THEN cur
    ELSE Run(rules,
             {r.next_state : r \in {t \in rules : t.state \in cur /\ t.input_symbol = w[1]}},
             Tail(w))

\* The word w leads from state q to a final state of the automaton of content c.
LeadsToFinal(c, q, w) == Run(c.rules, {q}, w) \cap c.final_states # {}

Accepts(c, w) == LeadsToFinal(c, c.start_state, w)

\* The state the deterministic complete automaton of content c goes to from
\* state q on symbol a.
Step(c, q, a) == (CHOOSE r \in c.rules : r.state = q /\ r.input_symbol = a).next_state

\* In the deterministic complete automaton of content c, the same words of at
\* most k symbols lead from p and from q to a final state: the empty word does,
\* and for each symbol a the words of at most k - 1 symbols do from where a
\* leads.
RECURSIVE SameFutureUpTo(_, _, _, _)
SameFutureUpTo(c, p, q, k) ==
    /\ (p \in c.final_states) <=> (q \in c.final_states)
    /\ k > 0 => \A a \in c.alphabet :
                   SameFutureUpTo(c, Step(c, p, a), Step(c, q, a), k - 1)

\* The states p and q have the same future behaviour. Words of fewer symbols
\* than there are states tell apart any two states that differ.
SameFuture(c, p, q) == SameFutureUpTo(c, p, q, MaxWordLen)

(* ------------------------------- claims ------------------------------- *)
\* C1: after the first minimize() of a well-specified automaton, the automaton
\* accepts a word exactly when the automaton before the call accepted it.
C1_LanguagePreserved ==
    (pc = "minimized" /\ calls = 1) =>
        \A w \in Words(orig.alphabet) : Accepts(Content(ws), w) <=> Accepts(orig, w)

\* C2: a WellSpecifiedFA, after construction and after any minimize(), has
\* exactly one rule for each state and alphabet symbol, so |states| x |alphabet|
\* rules.
C2_OneRulePerStateAndSymbol ==
    pc \in {"ws", "minimized"} =>
        LET c == Content(ws)
        IN  /\ \A q \in c.states : \A a \in c.alphabet :
                  Cardinality({r \in c.rules : r.state = q /\ r.input_symbol = a}) = 1
            /\ Cardinality(c.rules) = Cardinality(c.states) * Cardinality(c.alphabet)

\* C3: a second minimize() directly after the first leaves states, rules, start
\* state and final states as the first call left them.
C3_Idempotent ==
    (pc = "minimized" /\ calls = 2) =>
        LET c == Content(ws)
        IN  /\ c.states = prev.states
            /\ c.rules = prev.rules
            /\ c.start_state = prev.start_state
            /\ c.final_states = prev.final_states

\* C7: minimize() on the WellSpecifiedFA built from fa leaves fa's states,
\* alphabet, rules, start state and final states as they were.
C7_NoAliasing ==
    pc = "minimized" => Content(fa) = orig

\* C10: two states of the original automaton with the same future behaviour are
\* in one block of the partition minimize() converges on, and that block's name
\* is a state of the minimized automaton.
C10_EquivalentStatesMerged ==
    (calls = 1 /\ pc \in {"rebuild", "minimized"}) =>
        \A p, q \in orig.states :
            SameFuture(orig, p, q) =>
                \E B \in Qm :
                    /\ p \in B
                    /\ q \in B
                    /\ pc = "minimized" => _connect_states(B) \in heap[ws.refs.states]

\* C10's case: the first minimize() is done, the partition was refined beyond
\* its two starting blocks, and two distinct states have the same future.
C10_Witness ==
    /\ calls = 1
    /\ pc = "minimized"
    /\ Cardinality(Qm) > 2
    /\ \E p, q \in orig.states : p # q /\ SameFuture(orig, p, q)

\* C11: after the first minimize() of a well-specified automaton, two distinct
\* blocks of the final partition never have the same name from _connect_states,
\* and the automaton has as many states as the partition has blocks.
C11_BlocksGetDistinctNames ==
    (calls = 1 /\ pc = "minimized") =>
        /\ \A B1, B2 \in Qm :
              B1 # B2 => _connect_states(B1) # _connect_states(B2)
        /\ Cardinality(heap[ws.refs.states]) = Cardinality(Qm)

\* The states reached from the states cur by zero or more rules.
RECURSIVE ReachableFrom(_, _)
ReachableFrom(rules, cur) ==
    LET more == cur \cup {r.next_state : r \in {t \in rules : t.state \in cur}}
    IN  IF more = cur THEN cur ELSE ReachableFrom(rules, more)

\* C5: get_nonterminating_states() ends within |rules| + 1 iterations of its
\* loop, returns exactly the states from which no path of zero or more rules
\* reaches a final state, and leaves the automaton as it was.
C5_NonterminatingStates ==
    /\ pc \in {"nt_loop", "nt_return", "nt_done"} =>
          /\ scans <= Cardinality(orig.rules) + 1
          /\ Content(fa) = orig
    /\ pc = "nt_loop" => scans <= Cardinality(orig.rules)
    /\ pc = "nt_done" =>
          nt_result = {q \in orig.states :
                          ReachableFrom(orig.rules, {q}) \cap orig.final_states = {}}

\* C5's case: the call has returned after several iterations, with some states
\* non-terminating and some not.
C5_Witness ==
    /\ pc = "nt_done"
    /\ scans >= 3
    /\ nt_result # {}
    /\ nt_result # orig.states

\* The text is malformed in some part: the top-level shape, an item of the
\* states, alphabet, rules or final-states list, or a symbol literal.
Malformed(t) ==
    \/ ~t.shape
    \/ ~IsStateId(t.start)
    \/ \E tok \in Items(t.states) \cup Items(t.finals) : ~IsStateId(tok)
    \/ \E lit \in Items(t.alphabet) : ~IsSymLiteral(lit) \/ lit = MarkerLiteral
    \/ \E item \in Items(t.rules) : ~IsRuleItem(item) \/ item.sym = MarkerLiteral

\* C4: for an automaton A built from text, FiniteAutomata(str(A)) succeeds and
\* has the states, alphabet, rules, start state and final states of A.
C4_RoundTrip ==
    /\ pc # "raised_again"
    /\ pc = "constructed_again" => Content(fa2) = Content(fa)

\* C8: construction from a text malformed in any part fails with a syntax
\* error, and a semantic error is raised only for a text well formed in every
\* part.
C8_SyntaxBeforeSemantic ==
    pc \in {"raised", "constructed"} =>
        /\ Malformed(text[1]) => exc = "FASyntaxException"
        /\ exc = "FASemanticException" => ~Malformed(text[1])

\* C9: when the rules section is well formed but for a rule whose symbol
\* literal is three apostrophes (and the sections before it pass), construction
\* fails with FASyntaxException and no other exception.
C9_MarkerInRuleIsSyntaxError ==
    ( /\ pc \in {"raised", "constructed"}
      /\ TopLevelMatches(text[1])
      /\ StatesSectionOk(text[1].states)
      /\ Items(text[1].states) # {}
      /\ AlphabetSectionOk(text[1].alphabet)
      /\ \A lit \in Items(text[1].alphabet) : lit # MarkerLiteral
      /\ RulesSectionOk(text[1].rules)
      /\ \E item \in Items(text[1].rules) : item.sym = MarkerLiteral )
    => exc = "FASyntaxException"

\* C6: run with neither --minimize nor --find-non-finishing, mka.py writes the
\* automaton it parsed: the states, rules, start state and final states written
\* are those of the input, and minimize() has not been applied.
C6_ValidateOnlyWritesInput ==
    ( /\ pc = "exited"
      /\ exc = ""
      /\ "minimize" \notin opts
      /\ "find-non-finishing" \notin opts )
    => /\ calls = 0
       /\ out \in {<<StrText(orig, rules_list)>> : rules_list \in SortedRuleLists(orig.rules)}

====
